---- MODULE Spec2Model ----
(***************************************************************************)
(* Model of the room scraper: the two per-source crawls (scrapeOlx,        *)
(* scrapeOtodom) and the aggregator (main).  A crawl is an async function; *)
(* its position between awaits is pc[s].  main awaits the crawls one after *)
(* the other, so mainpc names the source main is at.                       *)
(***************************************************************************)
EXTENDS Integers, Sequences, FiniteSets, TLC

\* ---------------------------------------------------------------- bounds
MaxUrl == 2          \* listings a site can show are numbered 1..MaxUrl
MaxPageLen == 2      \* records one page.evaluate can return
MaxNegPages == 1     \* options.pages ranges over -MaxNegPages..MaxPagesOpt
MaxPagesOpt == 11
MaxPriceOpt == 1     \* options.maxPrice ranges over 0..MaxPriceOpt

\* ------------------------------------------------------ program constants
MAX_PAGES == 10
DEFAULT_PAGES == 5

SourceSet == {"olx", "otodom"}

\* ------------------------------------------------------------ JS values
\* A value of type number | undefined; NaN is a number that is not an integer.
Undefined == [k |-> "undefined", v |-> 0]
NaN == [k |-> "NaN", v |-> 0]
Num(n) == [k |-> "num", v |-> n]

\* price: number | null
NULL == <<>>
Price(n) == <<n>>

\* JS truthiness of a number | undefined: undefined, NaN and 0 are falsy.
Truthy(x) == x.k = "num" /\ x.v # 0

Min(a, b) == IF a <= b THEN a ELSE b

\* Math.min(options.pages || 5, MAX_PAGES)
PagesToScrape(opts) ==
    Min(IF Truthy(opts.pages) THEN opts.pages.v ELSE DEFAULT_PAGES, MAX_PAGES)

\* for (...; pageNum <= pagesToScrape; ...)
LoopCondOffByOne(pageNum_, pagesToScrape_) == pageNum_ <= pagesToScrape_ + 1
LoopCond(pageNum_, pagesToScrape_) == pageNum_ <= pagesToScrape_

\* -------------------------------------------------------------- listings
Urls == 1..MaxUrl
\* The listings of a site: listing 1 shows no price; the others cost 2, 3, ...
\* on olx and 1, 2, ... on otodom.
PriceOf(u, s) == IF u = 1 THEN NULL ELSE Price(IF s = "olx" THEN u ELSE u - 1)
TitleOf(u) == IF u % 2 = 0 THEN {"kawalerka", "centrum"} ELSE {"pokoj"}
Listing(u, s) == [url |-> u, price |-> PriceOf(u, s), title |-> TitleOf(u), source |-> s]

Range(f) == {f[i] : i \in DOMAIN f}

\* What page.evaluate can return for one page: records with distinct urls
\* (the in-page `listings.some((l) => l.url === fullUrl)` check).
PageResults(s) ==
    {<<>>} \cup
    UNION {{[i \in 1..n |-> Listing(f[i], s)] :
              f \in {g \in [1..n -> Urls] : \A i, j \in 1..n : i # j => g[i] # g[j]}}
           : n \in 1..MaxPageLen}

\* for (const room of rooms) if (!allRooms.some(r => r.url === room.url)) allRooms.push(room)
RECURSIVE AddAll(_, _)
AddAll(all, rs) == IF rs = <<>> THEN all ELSE AddAll(Append(all, Head(rs)), Tail(rs))

RECURSIVE AddUnique(_, _)
AddUnique(all, rs) ==
    IF rs = <<>> THEN all
    ELSE AddUnique(IF \E i \in DOMAIN all : all[i].url = Head(rs).url
                   THEN all ELSE Append(all, Head(rs)),
                   Tail(rs))

\* the break after hasNextPage
NeverStop(hasNext, rs) == FALSE
StopOlx(hasNext, rs) == ~hasNext
StopOnlyOnNoNext(hasNext, rs) == ~hasNext
StopOtodom(hasNext, rs) == ~hasNext \/ Len(rs) = 0
Stop(s, hasNext, rs) == IF s = "olx" THEN StopOlx(hasNext, rs) ELSE StopOtodom(hasNext, rs)

\* getRoomTypeKeywords; a title is the set of its lower-cased words, and
\* title.toLowerCase().includes(kw) is membership of kw in that set.
getRoomTypeKeywords(roomType) ==
    CASE roomType = "single" -> {"jednoosobowy", "1-osobowy", "single", "dla jednej"}
      [] roomType = "shared" -> {"wspollokator", "wspoldziel", "shared", "2-osobowy", "dwuosobowy"}
      [] roomType = "studio" -> {"kawalerka", "studio", "garsoniera"}
      [] roomType = "apartment" -> {"mieszkanie", "apartment", "flat"}
      [] OTHER -> {}

\* the "Apply filters" block
ApplyFilters(all, opts) ==
    LET kwOk(r) == getRoomTypeKeywords(opts.roomType) \cap r.title # {}
        priceOk(r) == r.price = NULL \/ r.price[1] <= opts.maxPrice.v
        byType == IF opts.roomType # "" THEN SelectSeq(all, kwOk) ELSE all
    IN IF Truthy(opts.maxPrice) THEN SelectSeq(byType, priceOk) ELSE byType

\* ------------------------------------------------------------------ sort
\* the comparator given to rooms.sort
compareNullsFirst(a, b) ==
    IF b.price = NULL THEN -1
    ELSE IF a.price = NULL THEN -1
    ELSE a.price[1] - b.price[1]
compare(a, b) ==
    IF a.price = NULL THEN 1
    ELSE IF b.price = NULL THEN -1
    ELSE a.price[1] - b.price[1]

\* Array.prototype.sort with that comparator.  The comparator answers 1 for
\* (null, null) in both argument orders, so it is not a consistent comparator
\* and the language leaves the order to the engine: the engine inserts each
\* element into the sorted prefix and may ask either compare(earlier, later)
\* or compare(later, earlier) at each comparison.
RECURSIVE Insert(_, _)
Insert(s, x) ==
    IF s = <<>> THEN {<<x>>}
    ELSE LET last == s[Len(s)]
             front == SubSeq(s, 1, Len(s) - 1)
             shifted == {Append(r, last) : r \in Insert(front, x)}
             stay == {Append(s, x)}
         IN (IF compare(last, x) > 0 THEN shifted ELSE stay)
            \cup (IF compare(x, last) < 0 THEN shifted ELSE stay)

RECURSIVE SortOutcomes(_)
SortOutcomes(s) ==
    IF s = <<>> THEN {<<>>}
    ELSE UNION {Insert(p, s[Len(s)]) : p \in SortOutcomes(SubSeq(s, 1, Len(s) - 1))}

\* ----------------------------------------------------------------- state
\* options, source   the parsed command line (main)
\* mainpc            where main is: "olx", "otodom", "sort", "done", "exit1"
\* rooms, merged     main's rooms; merged is rooms as it was before the sort
\* pc[s]             where crawl s is: "idle", "newPage", "setUserAgent",
\*                   "loop", "filter", "done", "failed"
\* browser[s]        "none", "open" or "closed"
\* pagesToScrape, pageNum, allRooms, hasNextPage   the crawl's locals
\* pageRooms[s]      `rooms` of the last iteration (the page's records)
\* filteredRooms[s]  what crawl s returned
\* fetched[s]        history: the page numbers passed to page.goto
\* firstSeen[s]      history: urls in the order they were first extracted
\* lastNew[s]        history: records the last page added to allRooms
\* falseAt[s]        history: first page after which hasNextPage was false, or 0
VARIABLES options, source, mainpc, rooms, merged,
          pc, browser, pagesToScrape, pageNum, allRooms, pageRooms,
          hasNextPage, filteredRooms,
          fetched, firstSeen, lastNew, falseAt

vars == <<options, source, mainpc, rooms, merged,
          pc, browser, pagesToScrape, pageNum, allRooms, pageRooms,
          hasNextPage, filteredRooms,
          fetched, firstSeen, lastNew, falseAt>>

crawlVars == <<pagesToScrape, pageNum, allRooms, pageRooms, hasNextPage,
               filteredRooms, fetched, firstSeen, lastNew, falseAt>>

PagesOptions == {Undefined, NaN} \cup {Num(n) : n \in (0 - MaxNegPages)..MaxPagesOpt}
MaxPriceOptions == {Undefined} \cup {Num(n) : n \in 0..MaxPriceOpt}
RoomTypeOptions == {"", "studio"}

Init ==
    /\ options \in [pages : PagesOptions, maxPrice : MaxPriceOptions, roomType : RoomTypeOptions]
    /\ source \in {"all", "olx", "otodom"}
    /\ mainpc = "olx"
    /\ rooms = <<>>
    /\ merged = <<>>
    /\ pc = [s \in SourceSet |-> "idle"]
    /\ browser = [s \in SourceSet |-> "none"]
    /\ pagesToScrape = [s \in SourceSet |-> 0]
    /\ pageNum = [s \in SourceSet |-> 0]
    /\ allRooms = [s \in SourceSet |-> <<>>]
    /\ pageRooms = [s \in SourceSet |-> <<>>]
    /\ hasNextPage = [s \in SourceSet |-> FALSE]
    /\ filteredRooms = [s \in SourceSet |-> <<>>]
    /\ fetched = [s \in SourceSet |-> <<>>]
    /\ firstSeen = [s \in SourceSet |-> <<>>]
    /\ lastNew = [s \in SourceSet |-> 0]
    /\ falseAt = [s \in SourceSet |-> 0]

Requested(s) == source = "all" \/ source = s
NextMain(s) == IF s = "olx" THEN "otodom" ELSE "sort"

\* where main goes when a crawl throws: catch, console.error, process.exit(1)
MainAfterCatchSwallow == "sort"
MainAfterCatch == "exit1"

\* ------------------------------------------------------ main: skip a source
Skip(s) ==
    /\ mainpc = s /\ ~Requested(s)
    /\ mainpc' = NextMain(s)
    /\ UNCHANGED <<options, source, rooms, merged, pc, browser, crawlVars>>

\* ---------------------------------------------------- crawl: puppeteer.launch
Launch(s) ==
    /\ mainpc = s /\ Requested(s) /\ pc[s] = "idle"
    /\ pc' = [pc EXCEPT ![s] = "newPage"]
    /\ browser' = [browser EXCEPT ![s] = "open"]
    /\ UNCHANGED <<options, source, mainpc, rooms, merged, crawlVars>>

LaunchThrows(s) ==
    /\ mainpc = s /\ Requested(s) /\ pc[s] = "idle"
    /\ pc' = [pc EXCEPT ![s] = "failed"]
    /\ mainpc' = MainAfterCatch
    /\ UNCHANGED <<options, source, rooms, merged, browser, crawlVars>>

\* ------------------------------------------------------ crawl: browser.newPage
NewPage(s) ==
    /\ mainpc = s /\ pc[s] = "newPage"
    /\ pc' = [pc EXCEPT ![s] = "setUserAgent"]
    /\ UNCHANGED <<options, source, mainpc, rooms, merged, browser, crawlVars>>

\* thrown before the try block: no finally runs
NewPageThrows(s) ==
    /\ mainpc = s /\ pc[s] = "newPage"
    /\ pc' = [pc EXCEPT ![s] = "failed"]
    /\ mainpc' = MainAfterCatch
    /\ UNCHANGED <<options, source, rooms, merged, browser, crawlVars>>

\* ------------------ crawl: page.setUserAgent, allRooms = [], pagesToScrape
SetUserAgent(s) ==
    /\ mainpc = s /\ pc[s] = "setUserAgent"
    /\ allRooms' = [allRooms EXCEPT ![s] = <<>>]
    /\ pagesToScrape' = [pagesToScrape EXCEPT ![s] = PagesToScrape(options)]
    /\ pageNum' = [pageNum EXCEPT ![s] = 1]
    /\ pc' = [pc EXCEPT ![s] =
                IF LoopCond(1, PagesToScrape(options)) THEN "loop" ELSE "filter"]
    /\ UNCHANGED <<options, source, mainpc, rooms, merged, browser, pageRooms,
                   hasNextPage, filteredRooms, fetched, firstSeen, lastNew, falseAt>>

SetUserAgentThrows(s) ==
    /\ mainpc = s /\ pc[s] = "setUserAgent"
    /\ pc' = [pc EXCEPT ![s] = "failed"]
    /\ mainpc' = MainAfterCatch
    /\ UNCHANGED <<options, source, rooms, merged, browser, crawlVars>>

\* ------------------------------------------- crawl: one iteration of the loop
\* first-seen order of urls, kept as history
FirstSeenAfter(fs, rs) ==
    LET isNew(r) == r.url \notin Range(fs)
        new == SelectSeq(rs, isNew)
    IN fs \o [i \in 1..Len(new) |-> new[i].url]

ScrapePage(s) ==
    /\ mainpc = s /\ pc[s] = "loop"
    /\ \E rs \in PageResults(s), hn \in BOOLEAN :
         LET all2 == AddUnique(allRooms[s], rs)
             next == pageNum[s] + 1
         IN /\ fetched' = [fetched EXCEPT ![s] = Append(@, pageNum[s])]
            /\ pageRooms' = [pageRooms EXCEPT ![s] = rs]
            /\ allRooms' = [allRooms EXCEPT ![s] = all2]
            /\ firstSeen' = [firstSeen EXCEPT ![s] = FirstSeenAfter(@, rs)]
            /\ lastNew' = [lastNew EXCEPT ![s] = Len(all2) - Len(allRooms[s])]
            /\ hasNextPage' = [hasNextPage EXCEPT ![s] = hn]
            /\ falseAt' = [falseAt EXCEPT ![s] = IF @ = 0 /\ ~hn THEN pageNum[s] ELSE @]
            /\ IF Stop(s, hn, rs)
               THEN /\ pageNum' = pageNum
                    /\ pc' = [pc EXCEPT ![s] = "filter"]
               ELSE /\ pageNum' = [pageNum EXCEPT ![s] = next]
                    /\ pc' = [pc EXCEPT ![s] =
                                IF LoopCond(next, pagesToScrape[s]) THEN "loop" ELSE "filter"]
    /\ UNCHANGED <<options, source, mainpc, rooms, merged, browser, pagesToScrape,
                   filteredRooms>>

\* page.goto or page.evaluate throws inside the try: finally closes the browser
ScrapePageThrows(s) ==
    /\ mainpc = s /\ pc[s] = "loop"
    /\ \E gotoDone \in BOOLEAN :
         fetched' = [fetched EXCEPT ![s] = IF gotoDone THEN Append(@, pageNum[s]) ELSE @]
    /\ browser' = [browser EXCEPT ![s] = "closed"]
    /\ pc' = [pc EXCEPT ![s] = "failed"]
    /\ mainpc' = MainAfterCatch
    /\ UNCHANGED <<options, source, rooms, merged, pagesToScrape, pageNum, allRooms,
                   pageRooms, hasNextPage, filteredRooms, firstSeen, lastNew, falseAt>>

\* ------------- crawl: filters, finally browser.close(), return; main pushes
\* The locals of the call are gone once it has returned.
Return(s) ==
    /\ mainpc = s /\ pc[s] = "filter"
    /\ filteredRooms' = [filteredRooms EXCEPT ![s] = ApplyFilters(allRooms[s], options)]
    /\ browser' = [browser EXCEPT ![s] = "closed"]
    /\ pc' = [pc EXCEPT ![s] = "done"]
    /\ rooms' = rooms \o ApplyFilters(allRooms[s], options)
    /\ mainpc' = NextMain(s)
    /\ pagesToScrape' = [pagesToScrape EXCEPT ![s] = 0]
    /\ pageNum' = [pageNum EXCEPT ![s] = 0]
    /\ allRooms' = [allRooms EXCEPT ![s] = <<>>]
    /\ pageRooms' = [pageRooms EXCEPT ![s] = <<>>]
    /\ hasNextPage' = [hasNextPage EXCEPT ![s] = FALSE]
    /\ fetched' = [fetched EXCEPT ![s] = <<>>]
    /\ firstSeen' = [firstSeen EXCEPT ![s] = <<>>]
    /\ lastNew' = [lastNew EXCEPT ![s] = 0]
    /\ falseAt' = [falseAt EXCEPT ![s] = 0]
    /\ UNCHANGED <<options, source, merged>>

\* ------------------------------------------- main: rooms.sort and the output
SortAndDisplay ==
    /\ mainpc = "sort"
    /\ merged' = rooms
    /\ rooms' \in SortOutcomes(rooms)
    /\ mainpc' = "done"
    /\ UNCHANGED <<options, source, pc, browser, crawlVars>>

Next ==
    \/ \E s \in SourceSet : Skip(s)
    \/ \E s \in SourceSet : Launch(s)
    \/ \E s \in SourceSet : LaunchThrows(s)
    \/ \E s \in SourceSet : NewPage(s)
    \/ \E s \in SourceSet : NewPageThrows(s)
    \/ \E s \in SourceSet : SetUserAgent(s)
    \/ \E s \in SourceSet : SetUserAgentThrows(s)
    \/ \E s \in SourceSet : ScrapePage(s)
    \/ \E s \in SourceSet : ScrapePageThrows(s)
    \/ \E s \in SourceSet : Return(s)
    \/ SortAndDisplay

Spec == Init /\ [][Next]_vars

\* ================================================================= claims
IsIota(q) == q = [i \in 1..Len(q) |-> i]
NoDupUrl(q) == \A i, j \in DOMAIN q : i # j => q[i].url # q[j].url
UrlsOf(q) == [i \in DOMAIN q |-> q[i].url]
PosIn(q, r) == CHOOSE i \in DOMAIN q : q[i] = r
Tie(a, b) == a.price = b.price

\* C1: whatever options.pages is, the page budget pagesToScrape a crawl has
\* computed when its page loop starts is an integer in [1, 10].
C1_BudgetInRange ==
    \A s \in SourceSet :
        pc[s] \in {"loop", "filter"} => pagesToScrape[s] \in 1..MAX_PAGES

\* C2 (as stated): for pages = K, a count K >= 0, a crawl performs no more
\* than K page fetches.
C2_AtMostKFetches ==
    \A s \in SourceSet :
        (options.pages.k = "num" /\ options.pages.v >= 0)
            => Len(fetched[s]) <= options.pages.v

\* C2 (amended): for pages = K with K >= 1 a crawl performs no more than
\* min(K, 10) page fetches; no more than 5 when pages is absent, 0 or NaN;
\* none when pages is negative; whatever hasNextPage returns.
FetchBound(p) ==
    IF p.k = "num" /\ p.v >= 1 THEN Min(p.v, MAX_PAGES)
    ELSE IF p.k = "num" /\ p.v < 0 THEN 0
    ELSE DEFAULT_PAGES
C2_FetchesWithinBudget ==
    \A s \in SourceSet : Len(fetched[s]) <= FetchBound(options.pages)

\* a budget of 2 pages used up while hasNextPage was true on both
C2_Witness ==
    \E s \in SourceSet :
        /\ options.pages = Num(2) /\ pc[s] = "filter"
        /\ Len(fetched[s]) = 2 /\ hasNextPage[s] /\ falseAt[s] = 0

\* C3: after any sequence of fetched pages allRooms holds each distinct url
\* exactly once, in the order of its first appearance across the pages.
C3_DedupFirstSeenOrder ==
    \A s \in SourceSet :
        NoDupUrl(allRooms[s]) /\ UrlsOf(allRooms[s]) = firstSeen[s]

\* a later page shows both known listings again, in the opposite order
C3_Witness ==
    \E s \in SourceSet :
        /\ Len(fetched[s]) >= 2 /\ Len(allRooms[s]) = 2 /\ lastNew[s] = 0
        /\ Len(pageRooms[s]) = 2
        /\ pageRooms[s][1].url = allRooms[s][2].url

\* C4: for every requested maxPrice = P, 0 included, every listing a crawl
\* returns has price null or price <= P.
C4_PriceFilter ==
    \A s \in SourceSet :
        (pc[s] = "done" /\ options.maxPrice.k = "num") =>
            \A i \in DOMAIN filteredRooms[s] :
                \/ filteredRooms[s][i].price = NULL
                \/ filteredRooms[s][i].price[1] <= options.maxPrice.v

\* C5: the sorted output is non-decreasing in price among the priced listings
\* and every listing without a price comes after every priced one.
C5_SortedNullsLast ==
    mainpc = "done" =>
        \A i, j \in DOMAIN rooms :
            i < j =>
                /\ rooms[i].price = NULL => rooms[j].price = NULL
                /\ (rooms[i].price # NULL /\ rooms[j].price # NULL)
                       => rooms[i].price[1] <= rooms[j].price[1]

\* the merged list began with an unpriced listing and had prices out of order
C5_Witness ==
    /\ mainpc = "done" /\ Len(merged) >= 3 /\ merged[1].price = NULL
    /\ \E i, j \in DOMAIN merged :
          /\ i < j /\ merged[i].price # NULL /\ merged[j].price # NULL
          /\ merged[i].price[1] > merged[j].price[1]

\* C6: two listings with equal price, or both without a price, compare as
\* equal under the comparator and keep their merged order in the output.
C6_StableTies ==
    mainpc = "done" =>
        \A i, j \in DOMAIN merged :
            (i < j /\ Tie(merged[i], merged[j])) =>
                /\ compare(merged[i], merged[j]) = 0
                /\ compare(merged[j], merged[i]) = 0
                /\ PosIn(rooms, merged[i]) < PosIn(rooms, merged[j])

\* C7: a browser a crawl launched is closed on every exit path of the crawl.
C7_BrowserClosedOnExit ==
    \A s \in SourceSet : pc[s] \in {"done", "failed"} => browser[s] # "open"

\* C8: when the crawl of a requested source fails, the aggregation fails as a
\* whole and outputs nothing, whatever an earlier source returned.
C8_FailureAborts ==
    (\E s \in SourceSet : pc[s] = "failed") => mainpc = "exit1"

\* olx returned listings, then otodom failed
C8_Witness ==
    /\ pc["olx"] = "done" /\ rooms # <<>>
    /\ pc["otodom"] = "failed" /\ mainpc = "exit1"

\* C9: pages are fetched in the order 1, 2, ...; once hasNextPage has
\* returned false after page p, exactly the pages 1..p have been fetched.
C9_EarlyStop ==
    \A s \in SourceSet :
        /\ IsIota(fetched[s])
        /\ falseAt[s] # 0 => Len(fetched[s]) = falseAt[s]

\* hasNextPage false after page 2 of a 5-page budget, crawl over
C9_Witness ==
    \E s \in SourceSet :
        /\ pagesToScrape[s] = 5 /\ falseAt[s] = 2 /\ pc[s] = "filter"
        /\ fetched[s] = <<1, 2>>

\* C10 (as stated): the otodom crawl goes on to a next page only after a
\* page that added a record to allRooms.
C10_StopsOnNoNewRecords ==
    (pc["otodom"] = "loop" /\ fetched["otodom"] # <<>>) => lastNew["otodom"] > 0

\* C10 (amended): the otodom crawl goes on to a next page only after a page
\* from which at least one record was extracted.
C10_StopsOnEmptyPage ==
    (pc["otodom"] = "loop" /\ fetched["otodom"] # <<>>) => Len(pageRooms["otodom"]) > 0

\* an empty page ended the crawl although hasNextPage was true and budget left
C10_Witness ==
    /\ pc["otodom"] = "filter" /\ fetched["otodom"] # <<>>
    /\ pageRooms["otodom"] = <<>> /\ hasNextPage["otodom"]
    /\ pageNum["otodom"] < pagesToScrape["otodom"]

====
